---- MODULE Spec2Model ----
(***************************************************************************)
(* Model of clogs (src/src/lib.rs): the Clog configuration builder, the    *)
(* main_script loader/validator, start, and the ClogRun frame dispatcher.  *)
(*                                                                         *)
(* The GameLisp runtime is modelled by its global environment: a map from  *)
(* the two entry point names to a value that is unbound, a non-callable    *)
(* (a number) or a GFn.  A script is a sequence of top-level forms; a form *)
(* either assigns a global (binding, rebinding or unbinding it), raises an *)
(* interpreter error, or is syntactically malformed.  A GFn is named by    *)
(* the sequence of forms its body evaluates when it is called.             *)
(***************************************************************************)
EXTENDS Integers, Sequences, FiniteSets, TLC

\* ---------------------------------------------------------------- bounds
MaxForms  == 2      \* longest script source, in top-level forms
MaxSvgs   == 2      \* most load_svg calls on one configuration
MaxFrames == 3      \* frames the host ticks before the window is closed

\* ------------------------------------------------------- program constants
DefaultWidth       == 800
DefaultHeight      == 800
DefaultSampleCount == 8

UPDATE == "engine:update"
RENDER == "engine:render"
Names  == {UPDATE, RENDER}

ErrExec   == "executing main script failed"
ErrUpdate == "function 'engine:update' is missing from main script"
ErrRender == "function 'engine:render' is missing from main script"
LoadErrors == {ErrExec, ErrUpdate, ErrRender}

DiagInvalid == "invalid function"
DiagFinding == "error finding function"
DiagExpect  == "Something unexpected went wrong with calling a GameLisp function"

\* ------------------------------------------------------------ input sets
Titles      == {"game"}
Int32Inputs == {-1, 640}
SvgNames    == {"a", "b"}
SvgSources  == {"<svg/>"}

\* ------------------------------------------------------------------ state
VARIABLES
    title, width, height, sample_count, svgs, fonts,   \* Clog fields
    env,            \* Clog.runtime / ClogRun.runtime: the global environment
    bootEnv,        \* the environment of the runtime ClogRun::new was given
    phase,          \* "building" | "failed" | "running": who owns the runtime
    loadCause,      \* how the last main_script thunk ended
    loadResult,     \* what the last main_script returned
    window,         \* the Conf miniquad::start was given
    assets,         \* what ClogRun.render holds
    next,           \* the host's next callback
    frame,          \* frames begun
    halted,         \* the process panicked
    lastCall,       \* outcome of the most recent ClogRun::call
    failedAt,       \* frame of the first call that did not return true
    reloaded,       \* main_script was applied to a configuration it had accepted
    assigned,       \* the entry points the last script's forms assigned
    rt,             \* which Runtime instance each component holds (0: none)
    scopeLog        \* run scopes entered and left by the last use of the runtime

\* --------------------------------------------------- interpreter values
\* GFn values, named by what their body does when called with no arguments.
GFns == {"noop", "bail", "del-render", "rewire"}
Vals == {"unbound", "num"} \cup GFns

Form(op, name, val) == [op |-> op, name |-> name, val |-> val]
SetForms   == {Form("set", n, v) : n \in Names, v \in Vals}
RaiseForm  == Form("raise", "-", "-")
Malformed  == Form("malformed", "-", "-")
SourceItems == SetForms \cup {RaiseForm, Malformed}

SeqsUpTo(S, n) == UNION {[1..k -> S] : k \in 0..n}
Scripts == SeqsUpTo(SourceItems, MaxForms)

\* The body a GFn evaluates when it is called.
FnBody(f) ==
    CASE f = "noop"        -> <<>>
      [] f = "bail"        -> <<RaiseForm>>
      [] f = "del-render"  -> <<Form("set", RENDER, "unbound")>>
      [] f = "rewire"      -> <<Form("set", UPDATE, "noop"),
                                Form("set", RENDER, "num")>>

\* glsp::parse_all: the whole source is parsed before anything is evaluated.
parse_all(src) ==
    IF \E i \in 1..Len(src) : src[i].op = "malformed"
    THEN [ok |-> FALSE, forms |-> <<>>]
    ELSE [ok |-> TRUE,  forms |-> src]

\* glsp::eval_multi / the body of a call: forms take effect in order, and the
\* first one that raises stops the evaluation, keeping the earlier effects.
RECURSIVE eval_multi(_, _)
eval_multi(e, forms) ==
    IF forms = <<>> THEN [env |-> e, ok |-> TRUE]
    ELSE LET f == Head(forms) IN
         IF f.op = "raise" THEN [env |-> e, ok |-> FALSE]
         ELSE eval_multi([e EXCEPT ![f.name] = f.val], Tail(forms))

\* A has_function that accepts any bound value (checks presence, not kind).
has_function_any_bound(e, function_name) == e[function_name] # "unbound"

\* Clog::has_function: Ok(Val::GFn(_)) => true, _ => false.
has_function(e, function_name) == e[function_name] \in GFns

\* A final check that joins the two tests with && and fails only when both fail.
LoadingResult_both_missing(has_update, has_render) ==
    IF ~has_update /\ ~has_render THEN ErrUpdate ELSE "ok"

\* A final check that forgets the render branch.
LoadingResult_no_render(has_update, has_render) ==
    IF ~has_update THEN ErrUpdate ELSE "ok"

\* A final check whose update test lost its negation.
LoadingResult_inverted(has_update, has_render) ==
    IF has_update THEN ErrUpdate
    ELSE IF ~has_render THEN ErrRender
    ELSE "ok"

\* The if / else-if / else that ends main_script.
LoadingResult(has_update, has_render) ==
    IF ~has_update THEN ErrUpdate
    ELSE IF ~has_render THEN ErrRender
    ELSE "ok"

\* A main_script that borrows the configuration instead of consuming it.
OwnerAfterLoad_borrowed(result) == "building"

\* main_script takes self by value: Ok(self) hands the configuration back,
\* an Err drops it together with its runtime.
OwnerAfterLoad(result) == IF result = "ok" THEN "building" ELSE "failed"

\* A has_function that opens a run scope of its own for the lookup.
has_function_scopes_own_run(function_name) == <<"enter", "exit">>

\* Clog::has_function calls glsp::global directly: it enters no run scope.
has_function_scopes(function_name) == <<>>

\* runtime.run(thunk): the scope lasts from the call of run to its return.
run_scopes(thunk_scopes) == <<"enter">> \o thunk_scopes \o <<"exit">>

\* The run scopes main_script enters and leaves: one run, whose thunk parses,
\* evaluates and calls has_function twice.
main_script_scopes ==
    run_scopes(has_function_scopes(UPDATE) \o has_function_scopes(RENDER))

\* The run scopes call enters and leaves: one run; expect acts on what run
\* returned, after the scope.
call_scopes == run_scopes(<<>>)

\* A start that gives the dispatcher a Runtime of its own.
start_runtime_fresh(r) == r + 1

\* Clog::start moves self.runtime into ClogRun::new.
start_runtime(r) == r

\* A main_script that evaluates every script in a runtime of its own.
main_script_fresh(e, script) ==
    LET e0 == [n \in Names |-> "unbound"]
        p == parse_all(script)
        r == IF p.ok THEN eval_multi(e0, p.forms) ELSE [env |-> e0, ok |-> FALSE]
    IN [env    |-> r.env,
        assigned |-> {script[i].name : i \in {j \in 1..Len(script) : script[j].op = "set"}},
        cause  |-> IF ~p.ok THEN "parse" ELSE IF ~r.ok THEN "eval" ELSE "checked",
        result |-> IF ~r.ok THEN ErrExec
                   ELSE LoadingResult(has_function(r.env, UPDATE),
                                      has_function(r.env, RENDER))]

\* Clog::main_script on a runtime whose environment is e: what the thunk leaves
\* in the environment, how it ended, and what main_script returns.
main_script(e, script) ==
    LET p == parse_all(script)
        r == IF p.ok THEN eval_multi(e, p.forms) ELSE [env |-> e, ok |-> FALSE]
    IN [env    |-> r.env,
        assigned |-> {script[i].name : i \in {j \in 1..Len(script) : script[j].op = "set"}},
        cause  |-> IF ~p.ok THEN "parse" ELSE IF ~r.ok THEN "eval" ELSE "checked",
        result |-> IF ~r.ok THEN ErrExec
                   ELSE LoadingResult(has_function(r.env, UPDATE),
                                      has_function(r.env, RENDER))]

CallOutcome(e, found, invoked, result, diags, halt) ==
    [env |-> e, found |-> found, invoked |-> invoked,
     result |-> result, diags |-> diags, halt |-> halt]

\* A call whose lookup uses `?`: a missing binding leaves the thunk with an
\* error, run returns None and expect panics.
call_lookup_fatal(e, function) ==
    LET found == e[function] IN
    IF found \in GFns
    THEN LET r == eval_multi(e, FnBody(found)) IN
         IF r.ok
         THEN CallOutcome(r.env, found, found, "true", <<>>, FALSE)
         ELSE CallOutcome(r.env, found, found, "panic", <<DiagExpect>>, TRUE)
    ELSE IF found = "unbound"
    THEN CallOutcome(e, found, "none", "panic", <<DiagExpect>>, TRUE)
    ELSE CallOutcome(e, found, "none", "false", <<DiagInvalid>>, FALSE)

\* A call that reports RuntimeResult(false) after a call that returned.
call_reports_false(e, function) ==
    LET found == e[function] IN
    IF found \in GFns
    THEN LET r == eval_multi(e, FnBody(found)) IN
         IF r.ok
         THEN CallOutcome(r.env, found, found, "false", <<>>, FALSE)
         ELSE CallOutcome(r.env, found, found, "panic", <<DiagExpect>>, TRUE)
    ELSE IF found = "unbound"
    THEN CallOutcome(e, found, "none", "false", <<DiagFinding>>, FALSE)
    ELSE CallOutcome(e, found, "none", "false", <<DiagInvalid>>, FALSE)

\* A call whose Ok(val) arm prints the diagnostic and then reports success.
call_invalid_is_true(e, function) ==
    LET found == e[function] IN
    IF found \in GFns
    THEN LET r == eval_multi(e, FnBody(found)) IN
         IF r.ok
         THEN CallOutcome(r.env, found, found, "true", <<>>, FALSE)
         ELSE CallOutcome(r.env, found, found, "panic", <<DiagExpect>>, TRUE)
    ELSE IF found = "unbound"
    THEN CallOutcome(e, found, "none", "false", <<DiagFinding>>, FALSE)
    ELSE CallOutcome(e, found, "none", "true", <<DiagInvalid>>, FALSE)

\* A call that resolves the entry point once, in the runtime as ClogRun::new
\* received it, and calls that handle in every frame.
call_cached(e, function) ==
    LET found == bootEnv[function] IN
    IF found \in GFns
    THEN LET r == eval_multi(e, FnBody(found)) IN
         IF r.ok
         THEN CallOutcome(r.env, found, found, "true", <<>>, FALSE)
         ELSE CallOutcome(r.env, found, found, "panic", <<DiagExpect>>, TRUE)
    ELSE IF found = "unbound"
    THEN CallOutcome(e, found, "none", "false", <<DiagFinding>>, FALSE)
    ELSE CallOutcome(e, found, "none", "false", <<DiagInvalid>>, FALSE)

\* ClogRun::call: the outcome of one call of the named entry point.
call(e, function) ==
    LET found == e[function] IN
    IF found \in GFns
    THEN LET r == eval_multi(e, FnBody(found)) IN
         IF r.ok
         THEN CallOutcome(r.env, found, found, "true", <<>>, FALSE)
         ELSE \* `?` leaves the thunk, run returns None, expect panics
              CallOutcome(r.env, found, found, "panic", <<DiagExpect>>, TRUE)
    ELSE IF found = "unbound"
    THEN CallOutcome(e, found, "none", "false", <<DiagFinding>>, FALSE)
    ELSE CallOutcome(e, found, "none", "false", <<DiagInvalid>>, FALSE)

NoCall == [function |-> "none", found |-> "none", invoked |-> "none",
           result |-> "none", diags |-> <<>>, frame |-> 0]
NoWindow == [open |-> FALSE, window_title |-> "", window_width |-> 0,
             window_height |-> 0, sample_count |-> 0]

\* ------------------------------------------------------- state, grouped
cfg  == <<title, width, height, sample_count, svgs, fonts>>
load == <<loadCause, loadResult, reloaded, assigned>>
run  == <<bootEnv, window, assets, next, frame, halted, lastCall, failedAt>>
vars == <<cfg, env, phase, load, run, rt, scopeLog>>

\* Clog::new(title): defaults, a fresh runtime, nothing loaded.  The struct
\* expression creates Runtime 1 for the runtime field; ..Default::default()
\* builds a whole default Clog with Runtime 2, whose unused fields, that
\* runtime among them, are dropped before new returns.
Init ==
    /\ title \in Titles
    /\ width = DefaultWidth
    /\ height = DefaultHeight
    /\ sample_count = DefaultSampleCount
    /\ svgs = <<>>
    /\ fonts = <<>>
    /\ env = [n \in Names |-> "unbound"]
    /\ phase = "building"
    /\ loadCause = "none"
    /\ loadResult = "none"
    /\ bootEnv = [n \in Names |-> "unbound"]
    /\ window = NoWindow
    /\ assets = <<>>
    /\ next = "update"
    /\ frame = 0
    /\ halted = FALSE
    /\ lastCall = NoCall
    /\ failedAt = 0
    /\ reloaded = FALSE
    /\ assigned = {}
    /\ rt = [created |-> 2, cfg |-> 1, run |-> 0, validated |-> 0]
    /\ scopeLog = <<>>

\* ---------------------------------------------------------------- builder
\* A load_svg that inserts the pair at the front of the list.
svgs_push_front(list, reference_name, svg_source) ==
    <<(<<reference_name, svg_source>>)>> \o list

\* self.svgs.push((reference_name.into(), svg_source.into()))
svgs_push(list, reference_name, svg_source) ==
    Append(list, <<reference_name, svg_source>>)

SetWidth ==
    /\ phase = "building"
    /\ \E w \in Int32Inputs : width' = w
    /\ UNCHANGED <<title, height, sample_count, svgs, fonts, env, phase, load, run, rt, scopeLog>>

SetHeight ==
    /\ phase = "building"
    /\ \E h \in Int32Inputs : height' = h
    /\ UNCHANGED <<title, width, sample_count, svgs, fonts, env, phase, load, run, rt, scopeLog>>

SetSampleCount ==
    /\ phase = "building"
    /\ \E s \in Int32Inputs : sample_count' = s
    /\ UNCHANGED <<title, width, height, svgs, fonts, env, phase, load, run, rt, scopeLog>>

LoadSvg ==
    /\ phase = "building"
    /\ Len(svgs) < MaxSvgs
    /\ \E r \in SvgNames, s \in SvgSources : svgs' = svgs_push(svgs, r, s)
    /\ UNCHANGED <<title, width, height, sample_count, fonts, env, phase, load, run, rt, scopeLog>>

\* What main_script can return and leave behind, over every script source, for
\* each environment the runtime can be in: pairs <<environment, outcome>>.
LoadOutcomes ==
    {<<e, main_script(e, script)>> : e \in [Names -> Vals], script \in Scripts}

\* Clog::main_script(script)
MainScript ==
    /\ phase = "building"
    /\ \E o \in {p[2] : p \in {q \in LoadOutcomes : q[1] = env}} :
        /\ env' = o.env
        /\ loadCause' = o.cause
        /\ loadResult' = o.result
        /\ phase' = OwnerAfterLoad(o.result)
        /\ assigned' = o.assigned
        /\ reloaded' = (reloaded \/ loadResult = "ok")
        /\ rt' = IF o.result = "ok"
                 THEN [rt EXCEPT !.validated = rt.cfg]
                 ELSE [rt EXCEPT !.cfg = 0]
    /\ scopeLog' = main_script_scopes
    /\ UNCHANGED <<cfg, run>>

\* Clog::start: miniquad::start(Conf {..}, |ctx| ClogRun::new(ctx, self.runtime))
Start ==
    /\ phase = "building"
    /\ phase' = "running"
    /\ window' = [open |-> TRUE, window_title |-> title, window_width |-> width,
                  window_height |-> height, sample_count |-> sample_count]
    /\ assets' = <<>>
    /\ bootEnv' = env
    /\ rt' = [rt EXCEPT !.run = start_runtime(rt.cfg), !.cfg = 0]
    /\ UNCHANGED <<cfg, env, load, next, frame, halted, lastCall, failedAt, scopeLog>>

\* ------------------------------------------------------- frame dispatcher
Dispatch(function, f) ==
    LET c == call(env, function) IN
    /\ env' = c.env
    /\ halted' = c.halt
    /\ lastCall' = [function |-> function, found |-> c.found,
                    invoked |-> c.invoked, result |-> c.result,
                    diags |-> c.diags, frame |-> f]
    /\ failedAt' = IF failedAt = 0 /\ c.result # "true" THEN f ELSE failedAt
    /\ scopeLog' = call_scopes

\* EventHandler::update
Update ==
    /\ phase = "running" /\ ~halted
    /\ next = "update"
    /\ frame < MaxFrames
    /\ frame' = frame + 1
    /\ Dispatch(UPDATE, frame + 1)
    /\ next' = "draw"
    /\ UNCHANGED <<cfg, phase, load, bootEnv, window, assets, rt>>

\* EventHandler::draw
Draw ==
    /\ phase = "running" /\ ~halted
    /\ next = "draw"
    /\ Dispatch(RENDER, frame)
    /\ next' = "update"
    /\ UNCHANGED <<cfg, phase, load, bootEnv, window, assets, frame, rt>>

Next ==
    \/ SetWidth
    \/ SetHeight
    \/ SetSampleCount
    \/ LoadSvg
    \/ MainScript
    \/ Start
    \/ Update
    \/ Draw

Spec == Init /\ [][Next]_vars

TypeOK ==
    /\ phase \in {"building", "failed", "running"}
    /\ env \in [Names -> Vals]
    /\ loadResult \in {"none", "ok"} \cup LoadErrors
    /\ loadCause \in {"none", "parse", "eval", "checked"}
    /\ frame \in 0..MaxFrames
    /\ halted \in BOOLEAN

\* ================================================================ claims

\* The body of GFn f raises an interpreter error when f is called.
Raises(f) == \E i \in 1..Len(FnBody(f)) : FnBody(f)[i].op = "raise"
\* Calling GFn f neither raises nor rebinds or unbinds a global.
Quiet(f) == FnBody(f) = <<>>
\* No entry point has been called yet: env is what the last main_script left.
NotDispatched == frame = 0
Called == lastCall.function # "none"

\* C1 (as claimed): whenever the entry point that call found is a callable
\* that raises when called, call returns false and the process is not halted.
C1_RaiseIsNonFatal ==
    (Called /\ lastCall.invoked \in GFns /\ Raises(lastCall.invoked))
        => (lastCall.result = "false" /\ ~halted)

\* C2: when the script's evaluation completes and leaves engine:update
\* unbound or bound to a non-callable, main_script fails with the error
\* naming engine:update (the same error in both cases), whatever
\* engine:render is bound to, and the configuration is not handed back.
C2_UpdateMissingNamesUpdate ==
    (NotDispatched /\ loadCause = "checked" /\ env[UPDATE] \notin GFns)
        => (loadResult = ErrUpdate /\ phase = "failed")

C2_Witness ==
    /\ NotDispatched /\ loadCause = "checked"
    /\ env[UPDATE] = "num" /\ env[RENDER] \in GFns
    /\ loadResult = ErrUpdate

\* C3: when the script's evaluation completes and leaves engine:update bound
\* to a callable and engine:render unbound or bound to a non-callable,
\* main_script fails with the error naming engine:render.
C3_RenderMissingNamesRender ==
    (NotDispatched /\ loadCause = "checked"
        /\ env[UPDATE] \in GFns /\ env[RENDER] \notin GFns)
        => (loadResult = ErrRender /\ phase = "failed")

C3_Witness ==
    /\ NotDispatched /\ loadCause = "checked"
    /\ env[UPDATE] \in GFns /\ env[RENDER] = "num"
    /\ loadResult = ErrRender

\* C4: when the script's evaluation completes and leaves both entry points
\* bound to callables, main_script returns Ok(self): the configuration is
\* handed back and can be started.
C4_BothCallableLoads ==
    (NotDispatched /\ loadCause = "checked"
        /\ env[UPDATE] \in GFns /\ env[RENDER] \in GFns)
        => (loadResult = "ok" /\ phase # "failed")

C4_Witness ==
    /\ loadCause = "checked" /\ loadResult = "ok" /\ phase = "building"
    /\ env[UPDATE] \in GFns /\ env[RENDER] \in GFns

\* C5: a draw whose lookup finds engine:render unbound reports failure with
\* one diagnostic and does not halt the process, and an update whose lookup
\* finds a callable that does not raise succeeds whatever engine:render is
\* bound to, in the frame of the failed draw and in every later frame.
C5_RenderUnboundIsolated ==
    /\ (lastCall.function = RENDER /\ lastCall.found = "unbound")
         => (lastCall.result = "false" /\ Len(lastCall.diags) = 1 /\ ~halted)
    /\ (lastCall.function = UPDATE /\ lastCall.found \in GFns
            /\ ~Raises(lastCall.found))
         => (lastCall.result = "true" /\ ~halted)

\* An update that succeeds in a frame after the one whose draw first failed,
\* engine:render having been unbound by the script after a successful load.
C5_Witness ==
    /\ loadResult = "ok" /\ bootEnv[RENDER] \in GFns /\ env[RENDER] = "unbound"
    /\ failedAt > 0 /\ lastCall.frame > failedAt
    /\ lastCall.function = UPDATE /\ lastCall.result = "true"

\* C6 (as claimed): the dispatcher only ever runs on a runtime that has
\* passed main_script validation.
C6_StartOnlyAfterValidation == phase = "running" => loadResult = "ok"

\* C7: once main_script has returned an error the configuration is gone: it
\* is never started and no window is opened.
C7_FailedLoadNeverStarts ==
    loadResult \in LoadErrors => (phase = "failed" /\ ~window.open)

C7_Witness ==
    /\ loadCause = "eval" /\ loadResult = ErrExec
    /\ phase = "failed" /\ ~window.open

\* C8 (as claimed): the generic "executing main script failed" error is
\* returned only when the scope itself could not be executed, never for a
\* parse error or for a top-level form that raised.
C8_GenericOnlyForScopeFailure ==
    loadResult = ErrExec => loadCause \notin {"parse", "eval"}

\* C9: when the runtime handed to the dispatcher was validated and its two
\* entry points are callables that neither raise nor rebind, every update and
\* draw so far has reported success without a diagnostic, and the process
\* has not halted.
C9_SteadyState ==
    (phase = "running" /\ loadResult = "ok" /\ Called
        /\ bootEnv[UPDATE] \in GFns /\ bootEnv[RENDER] \in GFns
        /\ Quiet(bootEnv[UPDATE]) /\ Quiet(bootEnv[RENDER]))
        => /\ lastCall.result = "true"
           /\ lastCall.diags = <<>>
           /\ failedAt = 0
           /\ ~halted
           /\ env = bootEnv

\* Every frame the host ticks has been updated and drawn.
C9_Witness ==
    /\ phase = "running" /\ loadResult = "ok"
    /\ Quiet(bootEnv[UPDATE]) /\ Quiet(bootEnv[RENDER])
    /\ frame = MaxFrames /\ lastCall.function = RENDER
    /\ lastCall.result = "true" /\ failedAt = 0

\* C10: call returns true exactly when the lookup found a callable and the
\* call of it returned; when the name is unbound or bound to a non-callable,
\* call returns false, emits exactly one diagnostic, invokes no script
\* function and does not halt the process.
C10_CallPrecision ==
    Called =>
        /\ (lastCall.result = "true")
             <=> (lastCall.found \in GFns /\ lastCall.invoked = lastCall.found
                    /\ ~Raises(lastCall.found))
        /\ (lastCall.found \notin GFns)
             => /\ lastCall.result = "false"
                /\ Len(lastCall.diags) = 1
                /\ lastCall.invoked = "none"
                /\ ~halted

\* A draw that found a number bound to engine:render, in a frame after the
\* one of the first failed call: the host kept ticking.
C10_Witness ==
    /\ lastCall.function = RENDER /\ lastCall.found = "num"
    /\ lastCall.result = "false" /\ lastCall.invoked = "none"
    /\ failedAt > 0 /\ lastCall.frame > failedAt /\ ~halted

\* The thunk of the last call signalled a failure: the binding was missing or
\* of the wrong kind, or the call of the entry point raised.
ThunkFailed ==
    \/ lastCall.found \notin GFns
    \/ (lastCall.invoked \in GFns /\ Raises(lastCall.invoked))

\* C11 (as claimed): a failure signalled by the thunk of call never halts the
\* process; only a scope that could not execute does.
C11_ThunkFailureNeverHalts == (Called /\ ThunkFailed) => ~halted

\* C12 (as claimed): after start, every (reference_name, svg_source) pair of
\* the configuration's svgs list is among the assets the render system holds.
C12_SvgsReachRenderer ==
    phase = "running"
        => \A i \in 1..Len(svgs) : \E j \in 1..Len(assets) : assets[j] = svgs[i]

\* C13 (as claimed): in every state of the builder chain width and height are
\* positive and the sample count is non-negative.
C13_ConfigValid == width > 0 /\ height > 0 /\ sample_count >= 0

\* C19: whenever main_script has returned Ok, the script was parsed and
\* evaluated without error and the runtime of the returned configuration
\* binds both entry points to callables.
C19_LoadSound ==
    (NotDispatched /\ loadResult = "ok")
        => /\ loadCause = "checked"
           /\ env[UPDATE] \in GFns
           /\ env[RENDER] \in GFns

C19_Witness ==
    /\ NotDispatched /\ loadResult = "ok" /\ phase = "building"
    /\ env[UPDATE] = "noop" /\ env[RENDER] = "bail"

\* C14: every update and every draw looks its entry point up in the global
\* environment as the previous calls left it, and what it invokes is the
\* callable bound there at that moment, not one bound at load time or in an
\* earlier frame.
C14_ResolvedAtCallTime ==
    [][ /\ (frame' # frame)
            => /\ lastCall'.found = env[UPDATE]
               /\ (env[UPDATE] \in GFns => lastCall'.invoked = env[UPDATE])
        /\ (next = "draw" /\ next' = "update")
            => /\ lastCall'.found = env[RENDER]
               /\ (env[RENDER] \in GFns => lastCall'.invoked = env[RENDER])
      ]_vars

\* The update of frame 1 rebound engine:update, and a later update invoked
\* the callable it was rebound to.
C14_Witness ==
    /\ bootEnv[UPDATE] = "rewire"
    /\ lastCall.function = UPDATE /\ lastCall.frame > 1
    /\ lastCall.invoked = "noop" /\ lastCall.result = "true"

\* C17: load_svg appends its pair at the end of svgs, keeping the earlier
\* entries and their order, and leaves every other field and the runtime
\* alone; width, height and sample_count each change only their own field.
C17_BuilderFrameEffect ==
    [][ /\ (svgs' # svgs)
            => /\ \E r \in SvgNames, s \in SvgSources :
                    svgs' = Append(svgs, <<r, s>>)
               /\ UNCHANGED <<title, width, height, sample_count, fonts, env>>
        /\ (width' # width)
            => UNCHANGED <<title, height, sample_count, svgs, fonts, env>>
        /\ (height' # height)
            => UNCHANGED <<title, width, sample_count, svgs, fonts, env>>
        /\ (sample_count' # sample_count)
            => UNCHANGED <<title, width, height, svgs, fonts, env>>
      ]_vars

\* A reference name registered twice is stored twice.
C17_Witness ==
    /\ Len(svgs) = 2 /\ svgs[1][1] = svgs[2][1]
    /\ width # DefaultWidth /\ height = DefaultHeight

\* The number of scopes active after each event of a log, d being active
\* before it.
RECURSIVE ScopeDepths(_, _)
ScopeDepths(log, d) ==
    IF log = <<>> THEN <<>>
    ELSE LET d1 == IF Head(log) = "enter" THEN d + 1 ELSE d - 1
         IN <<d1>> \o ScopeDepths(Tail(log), d1)

LiveRuntimes == {rt.cfg, rt.run} \ {0}

\* C16: while the application is being built or is running exactly one
\* Runtime is live; the configuration holds it until start and the
\* dispatcher after; and the dispatcher's instance is the one main_script
\* validated, when it validated one.
C16_SingleRuntimeSingleOwner ==
    /\ phase = "building" => (rt.cfg # 0 /\ rt.run = 0)
    /\ phase = "running" => (rt.cfg = 0 /\ rt.run # 0)
    /\ phase # "failed" => Cardinality(LiveRuntimes) = 1
    /\ (phase = "running" /\ rt.validated # 0) => rt.run = rt.validated

C16_Witness ==
    /\ phase = "running" /\ frame > 0
    /\ rt.validated # 0 /\ rt.run = rt.validated /\ rt.cfg = 0

\* C20: when main_script is applied to a configuration it had already
\* accepted, an entry point the new script does not assign keeps the
\* callable an earlier script bound, and a new script that evaluates without
\* error and assigns neither entry point is accepted.
C20_ReloadAccumulates ==
    (reloaded /\ NotDispatched /\ loadCause = "checked")
        => /\ \A n \in Names \ assigned : env[n] \in GFns
           /\ assigned = {} => (loadResult = "ok" /\ phase # "failed")

C20_Witness ==
    /\ reloaded /\ loadCause = "checked" /\ assigned = {}
    /\ loadResult = "ok" /\ phase = "building"
====
